---- MODULE Spec2Model ----
(***************************************************************************)
(* A model of the geometric-crypto core of TetraCryptPQC:                  *)
(*   src/src/hbb_blockchain.py  HypercubeBlock, HypercubeBlockchain        *)
(*   src/src/tke.py             TetrahedralKeyExchange                     *)
(*   src/src/rth.py             RecursiveTesseractHash                     *)
(*   src/src/qidl_encrypt.py    QIDLEncryption                             *)
(*                                                                         *)
(* Strings are sequences of character codes (str.encode() of ASCII text).  *)
(* np.random.rand is a pseudo-random generator: one call is modelled as    *)
(* the choice of a generator state (a seed) and the matrix that state      *)
(* yields; its floats in [0,1) are the fractions k / RandDenom, and every   *)
(* product with them is kept scaled by RandDenom.                          *)
(***************************************************************************)
EXTENDS Integers, Sequences, FiniteSets, TLC

VARIABLES
    chain,      \* HypercubeBlockchain.chain: sequence of HypercubeBlock
    ret,        \* the last HypercubeBlockchain call and what it returned
    tampered,   \* whether a stored block was modified from outside the class
    dimension,  \* TetrahedralKeyExchange.dimension of both parties
    pub,        \* per party: the vector it published (generate_tetrahedral_key)
    used,       \* per party: the vector generated inside its exchange_keys
    shared,     \* per party: the argument and the outcome of its exchange_keys
    keygen,     \* per party: how its generate_tetrahedral_key call ended
    rth,        \* RecursiveTesseractHash: its dimensions and iterations
    rthData,    \* the encoded input string handed to the hash
    rthCalls,   \* outcomes of the recursive_hash(rthData) calls made so far
    rthVerify,  \* target and outcome of the last verify_hash(rthData, target)
    qidl,       \* QIDLEncryption.dimension
    message,    \* the encoded message string handed to encrypt
    encrypted,  \* outcome of encrypt(message)
    decrypted,  \* argument and outcome of the last decrypt call
    ctor,       \* the last constructor call and how it ended
    instances,  \* the component instances constructed so far
    serialized, \* whether callers run add_block one call at a time
    pc,         \* per caller: where it is in its add_block call
    latest      \* per caller: latest_block, the local of its add_block call

hbbVars == <<chain, ret, tampered>>

tkeVars == <<dimension, pub, used, shared, keygen>>

rthVars == <<rth, rthData, rthCalls, rthVerify>>

qidlVars == <<qidl, message, encrypted, decrypted>>

ctorVars == <<ctor, instances>>

callerVars == <<serialized, pc, latest>>

vars == <<chain, ret, tampered, dimension, pub, used, shared, keygen,
          rth, rthData, rthCalls, rthVerify,
          qidl, message, encrypted, decrypted, ctor, instances,
          serialized, pc, latest>>

----------------------------------------------------------------------------
(* Bounds *)

MaxBlocks == 2      \* add_block calls per behaviour
NumSeeds == 2       \* generator states np.random.rand can be called in
MaxDim == 3         \* largest TetrahedralKeyExchange dimension
MaxRthDim == 3      \* largest RecursiveTesseractHash dimensions
MaxIter == 2        \* largest RecursiveTesseractHash iterations
MaxLen == 4         \* longest encoded input string
MaxQidlDim == 4     \* largest QIDLEncryption dimension
MaxInstances == 2   \* component instances constructed per behaviour

Seeds == 1..NumSeeds
Times == {0, 1}

RandDenom == 8      \* rand values are k / RandDenom, k in 0..RandDenom-1

----------------------------------------------------------------------------
(* Helpers standing for Python / numpy primitives *)

Min(a, b) == IF a < b THEN a ELSE b

\* s[:n]
Take(s, n) == SubSeq(s, 1, Min(Len(s), n))

\* np.random.rand(rows, cols) in generator state seed
Rand(seed, rows, cols) ==
    [i \in 1..rows |-> [j \in 1..cols |->
        (seed * (3 * i + 5 * j) + seed * seed + i * j) % RandDenom]]

RECURSIVE Dot(_, _)
\* np.dot of two equally long vectors
Dot(u, v) ==
    IF Len(u) = 0 THEN 0
    ELSE Head(u) * Head(v) + Dot(Tail(u), Tail(v))

\* np.dot(matrix, vector)
MatVec(m, v) == [i \in 1..Len(m) |-> Dot(m[i], v)]

RECURSIVE StrInt(_)
\* str(n) for n >= 0, as character codes
StrInt(n) ==
    IF n < 10 THEN <<48 + n>>
    ELSE StrInt(n \div 10) \o <<48 + (n % 10)>>

\* one hexadecimal digit as its character code ('0'..'9', 'a'..'f')
HexChar(d) == IF d < 10 THEN 48 + d ELSE 87 + d

RECURSIVE HexDigits(_, _)
\* the len low hexadecimal digits of n, lowest first
HexDigits(n, len) ==
    IF n = 0 THEN [k \in 1..len |-> HexChar(0)]
    ELSE IF len = 0 THEN <<>>
    ELSE <<HexChar(n % 16)>> \o HexDigits(n \div 16, len - 1)

\* hashlib.sha256(hash_value.tobytes()).hexdigest(): 64 hexadecimal
\* characters. SHA-256 is taken as collision free: the digest spells the
\* four hashed numbers, 16 characters each.
Sha256Hex(v) ==
    HexDigits(v[1], 16) \o HexDigits(v[2], 16) \o
    HexDigits(v[3], 16) \o HexDigits(v[4], 16)

----------------------------------------------------------------------------
(* src/src/hbb_blockchain.py *)

\* '0' * 64
ZeroHash == [k \in 1..64 |-> 48]

\* 'Genesis Block'
GenesisData == <<71, 101, 110, 101, 115, 105, 115, 32, 66, 108, 111, 99, 107>>

\* the payload handed to add_block: 'a'
Payloads == {<<97>>}

\* HypercubeBlock.calculate_hash with np.random.rand(4, 4) drawn in state seed
calculate_hash(index, previous_hash, data, timestamp, seed) ==
    LET hypercube == Rand(seed, 4, 4)
        data_bytes == StrInt(index) \o previous_hash \o data \o StrInt(timestamp)
        data_array == Take(data_bytes, 4)
        hash_value == MatVec(hypercube, data_array)
    IN  Sha256Hex(hash_value)

\* HypercubeBlock.__init__
HypercubeBlock(index, previous_hash, data, timestamp, seed) ==
    [index |-> index, previous_hash |-> previous_hash, data |-> data,
     timestamp |-> timestamp,
     hash |-> calculate_hash(index, previous_hash, data, timestamp, seed)]

\* create_genesis_block stamping a previous_hash of 32 characters
create_genesis_block_short(now, seed) ==
    HypercubeBlock(0, [k \in 1..32 |-> 48], GenesisData, now, seed)

create_genesis_block(now, seed) ==
    HypercubeBlock(0, ZeroHash, GenesisData, now, seed)

get_latest_block == chain[Len(chain)]

\* HypercubeBlockchain.__init__
HBBInit ==
    /\ \E now \in Times, seed \in Seeds :
          chain = <<create_genesis_block(now, seed)>>
    /\ ret = [op |-> "init", val |-> "None"]
    /\ tampered = FALSE

\* a new block linked to the hash the latest block itself links to
NewBlockStale(latest_block, data, now, seed) ==
    HypercubeBlock(latest_block.index + 1, latest_block.previous_hash,
                   data, now, seed)

\* a new block that repeats the latest block's index
NewBlockSameIndex(latest_block, data, now, seed) ==
    HypercubeBlock(latest_block.index, latest_block.hash, data, now, seed)

\* add_block's new block
NewBlock(latest_block, data, now, seed) ==
    HypercubeBlock(latest_block.index + 1, latest_block.hash, data, now, seed)

\* add_block overwriting the latest block instead of appending
add_block_replace(data) ==
    /\ Len(chain) <= MaxBlocks
    /\ \E now \in Times, seed \in Seeds :
          chain' = [chain EXCEPT ![Len(chain)] =
                        NewBlock(get_latest_block, data, now, seed)]
    /\ ret' = [op |-> "add_block", val |-> "None"]
    /\ UNCHANGED tampered
    /\ UNCHANGED <<tkeVars, rthVars, qidlVars, ctorVars, callerVars>>

add_block(data) ==
    /\ Len(chain) <= MaxBlocks
    /\ \E now \in Times, seed \in Seeds :
          chain' = Append(chain, NewBlock(get_latest_block, data, now, seed))
    /\ ret' = [op |-> "add_block", val |-> "None"]
    /\ UNCHANGED tampered
    /\ UNCHANGED <<tkeVars, rthVars, qidlVars, ctorVars, callerVars>>

AddBlock == \E data \in Payloads : add_block(data)

GetLatestBlock ==
    /\ ret' = [op |-> "get_latest_block", val |-> get_latest_block]
    /\ UNCHANGED <<chain, tampered>>
    /\ UNCHANGED <<tkeVars, rthVars, qidlVars, ctorVars, callerVars>>

\* the checks is_chain_valid makes on block i, calculate_hash drawing in seed
BlockOk(c, i, seed) ==
    /\ c[i].hash = calculate_hash(c[i].index, c[i].previous_hash,
                                  c[i].data, c[i].timestamp, seed)
    /\ c[i].previous_hash = c[i - 1].hash

\* is_chain_valid checking the latest block only
is_chain_valid_last(c, seeds) ==
    Len(c) >= 2 => BlockOk(c, Len(c), seeds[Len(c)])

\* is_chain_valid, seeds[i] being the draw of the i-th calculate_hash call
is_chain_valid(c, seeds) == \A i \in 2..Len(c) : BlockOk(c, i, seeds[i])

IsChainValid ==
    /\ \E seeds \in [2..Len(chain) -> Seeds] :
          ret' = [op |-> "is_chain_valid", val |-> is_chain_valid(chain, seeds)]
    /\ UNCHANGED <<chain, tampered>>
    /\ UNCHANGED <<tkeVars, rthVars, qidlVars, ctorVars, callerVars>>

\* code outside the class assigns the data or the timestamp of one stored block
Tamper ==
    /\ ~tampered
    /\ \E i \in 1..Len(chain) :
          \/ \E d \in (Payloads \cup {GenesisData}) \ {chain[i].data} :
                chain' = [chain EXCEPT ![i].data = d]
          \/ \E t \in Times \ {chain[i].timestamp} :
                chain' = [chain EXCEPT ![i].timestamp = t]
    /\ tampered' = TRUE
    /\ ret' = [op |-> "tamper", val |-> "None"]
    /\ UNCHANGED <<tkeVars, rthVars, qidlVars, ctorVars, callerVars>>

\* the digest written over a stored one: '0' * 64
ForgedHashes == {ZeroHash}

\* code outside the class assigns the previous_hash or the hash of one
\* stored block
Corrupt ==
    /\ ~tampered
    /\ \E i \in 1..Len(chain) :
          \/ \E h \in ForgedHashes \ {chain[i].previous_hash} :
                chain' = [chain EXCEPT ![i].previous_hash = h]
          \/ \E h \in ForgedHashes \ {chain[i].hash} :
                chain' = [chain EXCEPT ![i].hash = h]
    /\ tampered' = TRUE
    /\ ret' = [op |-> "corrupt", val |-> "None"]
    /\ UNCHANGED <<tkeVars, rthVars, qidlVars, ctorVars, callerVars>>

\* the callers that share one HypercubeBlockchain
Callers == {"c1", "c2"}

\* latest_block before the call assigned it
Unbound == "unbound"

\* the callers whose add_block call has read the latest block and has not
\* appended yet
Reading == {c \in Callers : pc[c] = "read"}

\* no add_block call is in progress and calls do not overlap
CallersNone ==
    /\ serialized = TRUE
    /\ pc = [c \in Callers |-> "idle"]
    /\ latest = [c \in Callers |-> Unbound]

\* two callers, whose add_block calls either may overlap or never do
CallersInit ==
    /\ serialized \in BOOLEAN
    /\ pc = [c \in Callers |-> "idle"]
    /\ latest = [c \in Callers |-> Unbound]

\* the first statement of add_block, entered while another call is running
ReadLatestOverlapping(c) ==
    /\ pc[c] = "idle"
    /\ Len(chain) + Cardinality(Reading) <= MaxBlocks
    /\ latest' = [latest EXCEPT ![c] = get_latest_block]
    /\ pc' = [pc EXCEPT ![c] = "read"]
    /\ UNCHANGED <<hbbVars, serialized>>
    /\ UNCHANGED <<tkeVars, rthVars, qidlVars, ctorVars>>

\* the first statement of add_block: latest_block = self.get_latest_block();
\* when calls are serialized a call starts only after the running one returned
ReadLatest(c) ==
    /\ pc[c] = "idle"
    /\ serialized => Reading = {}
    /\ Len(chain) + Cardinality(Reading) <= MaxBlocks
    /\ latest' = [latest EXCEPT ![c] = get_latest_block]
    /\ pc' = [pc EXCEPT ![c] = "read"]
    /\ UNCHANGED <<hbbVars, serialized>>
    /\ UNCHANGED <<tkeVars, rthVars, qidlVars, ctorVars>>

\* the rest of add_block: the new block is built from the local latest_block
\* and appended
AppendNew(c) ==
    /\ pc[c] = "read"
    /\ \E data \in Payloads, now \in Times, seed \in Seeds :
          chain' = Append(chain, NewBlock(latest[c], data, now, seed))
    /\ ret' = [op |-> "add_block", val |-> "None"]
    /\ pc' = [pc EXCEPT ![c] = "idle"]
    /\ latest' = [latest EXCEPT ![c] = Unbound]
    /\ UNCHANGED <<tampered, serialized>>
    /\ UNCHANGED <<tkeVars, rthVars, qidlVars, ctorVars>>

\* no HypercubeBlockchain was constructed
HBBNone ==
    /\ chain = <<>>
    /\ ret = [op |-> "none", val |-> "None"]
    /\ tampered = FALSE

----------------------------------------------------------------------------
(* src/src/tke.py *)

Parties == {"alice", "bob"}

Peer(p) == IF p = "alice" THEN "bob" ELSE "alice"

RECURSIVE Flatten(_)
\* ndarray.flatten() of a sequence of rows
Flatten(rows) ==
    IF Len(rows) = 0 THEN <<>>
    ELSE Head(rows) \o Flatten(Tail(rows))

\* Delaunay(points).simplices[0] for dimension + 1 points in general
\* position: the one simplex, its vertices (0-based) in an order Qhull
\* picks; the orders considered are the rotations of 0..dimension
SimplexOrders(dim) ==
    {[k \in 1..(dim + 1) |-> (k - 1 + r) % (dim + 1)] : r \in 0..dim}

\* generate_tetrahedral_key with np.random.rand drawn in state seed and
\* simplices[0] = simplex
generate_tetrahedral_key(dim, seed, simplex) ==
    LET points == Rand(seed, dim + 1, dim)
        key == Flatten([k \in 1..Len(simplex) |-> points[simplex[k] + 1]])
    IN  Take(key, dim)

\* the keys one call of generate_tetrahedral_key can return
Keys(dim) ==
    {generate_tetrahedral_key(dim, seed, simplex) :
        seed \in Seeds, simplex \in SimplexOrders(dim)}

\* np.dot of two vectors: shapes must agree
np_dot(u, v) ==
    IF Len(u) = Len(v)
    THEN [kind |-> "ok", val |-> Dot(u, v)]
    ELSE [kind |-> "ValueError", val |-> 0]

\* exchange_keys, its own generate_tetrahedral_key call returning key
exchange_keys(dim, public_key, key) == np_dot(Take(public_key, dim), key)

NotCalled == [kind |-> "none", val |-> 0]

\* Delaunay(points) on dim + 1 points of dim coordinates: scipy's Qhull
\* wrapper raises ValueError ("Need at least 2-D data") below 2 dimensions
DelaunayOk(dim) == dim >= 2

\* two TetrahedralKeyExchange instances of the same dimension
TKEInit ==
    /\ dimension \in 1..MaxDim
    /\ pub = [p \in Parties |-> <<>>]
    /\ used = [p \in Parties |-> <<>>]
    /\ shared = [p \in Parties |-> [arg |-> <<>>, out |-> NotCalled]]
    /\ keygen = [p \in Parties |-> "none"]

\* no TetrahedralKeyExchange was constructed
TKENone ==
    /\ dimension = 4
    /\ pub = [p \in Parties |-> <<>>]
    /\ used = [p \in Parties |-> <<>>]
    /\ shared = [p \in Parties |-> [arg |-> <<>>, out |-> NotCalled]]
    /\ keygen = [p \in Parties |-> "none"]

\* party p calls generate_tetrahedral_key and publishes the result
GenerateKey(p) ==
    /\ keygen[p] = "none"
    /\ IF DelaunayOk(dimension)
       THEN /\ \E key \in Keys(dimension) : pub' = [pub EXCEPT ![p] = key]
            /\ keygen' = [keygen EXCEPT ![p] = "ok"]
       ELSE /\ pub' = pub
            /\ keygen' = [keygen EXCEPT ![p] = "ValueError"]
    /\ UNCHANGED <<dimension, used, shared>>
    /\ UNCHANGED <<hbbVars, rthVars, qidlVars, ctorVars, callerVars>>

\* the vectors p may receive as its peer's public key: the published one,
\* one element short, one element long
PeerVectors(p) ==
    LET v == pub[Peer(p)]
    IN  {v, Take(v, Len(v) - 1), v \o <<1>>}

\* party p calls exchange_keys(public_key)
ExchangeKeys(p) ==
    /\ pub[p] # <<>>
    /\ pub[Peer(p)] # <<>>
    /\ shared[p].out.kind = "none"
    /\ \E public_key \in PeerVectors(p), key \in Keys(dimension) :
          /\ used' = [used EXCEPT ![p] = key]
          /\ shared' = [shared EXCEPT ![p] =
                [arg |-> public_key,
                 out |-> exchange_keys(dimension, public_key, key)]]
    /\ UNCHANGED <<dimension, pub, keygen>>
    /\ UNCHANGED <<hbbVars, rthVars, qidlVars, ctorVars, callerVars>>

----------------------------------------------------------------------------
(* src/src/rth.py *)

\* bytes of the encoded input strings: '1', 'z'
Bytes == {49, 122}

\* str.encode() of the input strings of at most n characters
Inputs(n) == UNION {[1..k -> Bytes] : k \in 0..n}

\* bit b of r
Bit(r, b) == (r \div (2 ^ b)) % 2

\* np.array(np.meshgrid(*[[-1, 1]] * dims)).T.reshape(-1, dims)[r][m]
\* (0-based): meshgrid's default 'xy' indexing swaps the first two axes,
\* so column 0 follows bit 1 of the row number and column 1 follows bit 0
Vertex(dims, r, m) ==
    LET axis == IF dims >= 2 /\ m <= 1 THEN 1 - m ELSE m
    IN  IF Bit(r, axis) = 1 THEN 1 ELSE -1

\* generate_tesseract: vertices[:dimensions]
generate_tesseract(dims) ==
    [r \in 1..Min(dims, 2 ^ dims) |->
        [m \in 1..dims |-> Vertex(dims, r - 1, m - 1)]]

\* np.dot(matrix, vector): the row length must be the vector's length
np_matvec(m, v) ==
    IF Len(m) > 0 /\ Len(m[1]) = Len(v)
    THEN [kind |-> "ok", val |-> MatVec(m, v)]
    ELSE [kind |-> "ValueError", val |-> <<>>]

\* ndarray.astype(np.uint8) of integers
AsUint8(v) == [i \in 1..Len(v) |-> v[i] % 256]

RECURSIVE SeqSum(_)
SeqSum(s) == IF Len(s) = 0 THEN 0 ELSE Head(s) + SeqSum(Tail(s))

\* the first dims bytes, the bytes after them added onto the first
FoldInput(dims, data) ==
    IF Len(data) <= dims THEN data
    ELSE [i \in 1..dims |->
            IF i = 1 THEN data[1] + SeqSum(SubSeq(data, dims + 1, Len(data)))
            ELSE data[i]]

RECURSIVE HashRoundsFold(_, _, _, _)
\* the loop of recursive_hash, every byte of the input entering the product
HashRoundsFold(dims, n, data_array, hash_value) ==
    IF n = 0 THEN [kind |-> "ok", val |-> hash_value]
    ELSE LET tesseract == generate_tesseract(dims)
             product == np_matvec(Take(tesseract, Len(data_array)),
                                  FoldInput(dims, data_array))
         IN  IF product.kind = "ok"
             THEN HashRoundsFold(dims, n - 1, AsUint8(product.val), product.val)
             ELSE product

RECURSIVE HashRounds(_, _, _, _)
\* the loop of recursive_hash with n rounds left
HashRounds(dims, n, data_array, hash_value) ==
    IF n = 0 THEN [kind |-> "ok", val |-> hash_value]
    ELSE LET tesseract == generate_tesseract(dims)
             product == np_matvec(Take(tesseract, Len(data_array)),
                                  Take(data_array, dims))
         IN  IF product.kind = "ok"
             THEN HashRounds(dims, n - 1, AsUint8(product.val), product.val)
             ELSE product

\* recursive_hash(data) of an instance with the given dimensions, iterations
recursive_hash(h, data) ==
    HashRounds(h.dimensions, h.iterations, data,
               [i \in 1..h.dimensions |-> 0])

\* verify_hash(data, target_hash)
verify_hash(h, data, target_hash) ==
    LET computed_hash == recursive_hash(h, data)
    IN  IF computed_hash.kind = "ok"
        THEN [kind |-> "ok", val |-> (computed_hash.val = target_hash)]
        ELSE [kind |-> "ValueError", val |-> FALSE]

NoVerify == [target |-> <<>>, out |-> [kind |-> "none", val |-> FALSE]]

\* a RecursiveTesseractHash and an input string
RTHInit ==
    /\ rth \in [dimensions : 1..MaxRthDim, iterations : 0..MaxIter]
    /\ rthData \in Inputs(MaxLen)
    /\ rthCalls = <<>>
    /\ rthVerify = NoVerify

\* no RecursiveTesseractHash was constructed
RTHNone ==
    /\ rth = [dimensions |-> 4, iterations |-> 3]
    /\ rthData = <<>>
    /\ rthCalls = <<>>
    /\ rthVerify = NoVerify

\* a call recursive_hash(rthData)
RecursiveHash ==
    /\ Len(rthCalls) < 2
    /\ rthCalls' = Append(rthCalls, recursive_hash(rth, rthData))
    /\ UNCHANGED <<rth, rthData, rthVerify>>
    /\ UNCHANGED <<hbbVars, tkeVars, qidlVars, ctorVars, callerVars>>

\* the digests of the input strings: what verify_hash is given as target
Digests ==
    {recursive_hash(rth, y).val :
        y \in {x \in Inputs(MaxLen) : recursive_hash(rth, x).kind = "ok"}}

\* a call verify_hash(rthData, target)
VerifyHash ==
    /\ \E target \in Digests :
          rthVerify' = [target |-> target,
                        out |-> verify_hash(rth, rthData, target)]
    /\ UNCHANGED <<rth, rthData, rthCalls>>
    /\ UNCHANGED <<hbbVars, tkeVars, qidlVars, ctorVars, callerVars>>

----------------------------------------------------------------------------
(* src/src/qidl_encrypt.py *)

(* The lattice holds the golden ratio phi = (1 + sqrt(5)) / 2. A number     *)
(* a + b * phi with integers a, b is the pair <<a, b>>, and phi * phi is    *)
(* phi + 1.                                                                *)
ZInt(n) == <<n, 0>>

ZZero == ZInt(0)

ZAdd(x, y) == <<x[1] + y[1], x[2] + y[2]>>

ZNeg(x) == <<-x[1], -x[2]>>

ZMul(x, y) ==
    <<x[1] * y[1] + x[2] * y[2], x[1] * y[2] + x[2] * y[1] + x[2] * y[2]>>

phi == <<0, 1>>

\* the twelve points of create_icosahedral_structure
IcoPoints ==
    LET o == ZZero
        p1 == ZInt(1)
        m1 == ZInt(-1)
        pf == phi
        mf == ZNeg(phi)
    IN  << <<o, p1, pf>>, <<o, m1, pf>>, <<o, p1, mf>>, <<o, m1, mf>>,
           <<p1, pf, o>>, <<m1, pf, o>>, <<p1, mf, o>>, <<m1, mf, o>>,
           <<pf, o, p1>>, <<mf, o, p1>>, <<pf, o, m1>>, <<mf, o, m1>> >>

\* create_icosahedral_structure: zero columns up to dim, then points[:dim]
create_icosahedral_structure(dim) ==
    LET points ==
            IF dim > 3
            THEN [i \in 1..12 |-> IcoPoints[i] \o [k \in 1..(dim - 3) |-> ZZero]]
            ELSE IcoPoints
    IN  Take(points, dim)

RECURSIVE ZDot(_, _)
\* np.dot of a lattice row and an equally long vector of lattice numbers
ZDot(row, v) ==
    IF Len(row) = 0 THEN ZZero
    ELSE ZAdd(ZMul(Head(row), Head(v)), ZDot(Tail(row), Tail(v)))

ZMatVec(m, v) == [i \in 1..Len(m) |-> ZDot(m[i], v)]

\* encrypt(message)
encrypt(dim, message_array) ==
    LET ico_points == create_icosahedral_structure(dim)
        rows == Take(ico_points, Len(message_array))
        v == [i \in 1..Min(Len(message_array), dim) |-> ZInt(message_array[i])]
    IN  IF Len(rows) > 0 /\ Len(rows[1]) = Len(v)
        THEN [kind |-> "ok", val |-> ZMatVec(rows, v)]
        ELSE [kind |-> "ValueError", val |-> <<>>]

\* a without row 1 and column j
Minor(a, j) ==
    [i \in 1..(Len(a) - 1) |->
        [k \in 1..(Len(a) - 1) |-> a[i + 1][IF k < j THEN k ELSE k + 1]]]

RECURSIVE Det(_)
\* determinant of a square matrix, expanded along its first row
Det(a) ==
    IF Len(a) = 0 THEN ZInt(1)
    ELSE LET Term(j) ==
                 LET t == ZMul(a[1][j], Det(Minor(a, j)))
                 IN  IF j % 2 = 1 THEN t ELSE ZNeg(t)
             Sum[j \in 0..Len(a)] ==
                 IF j = 0 THEN ZZero ELSE ZAdd(Sum[j - 1], Term(j))
         IN  Sum[Len(a)]

IsSquare(a) == Len(a) > 0 /\ Len(a[1]) = Len(a)

\* np.linalg.solve finds a zero pivot
IsSingular(a) == Det(a) = ZZero

\* bytes(np.round(x).astype(np.uint8)) for the solution x of a x = b,
\* when that solution is a vector of bytes
RoundedSolution(a, b) ==
    CHOOSE x \in [1..Len(a) -> 0..255] :
        ZMatVec(a, [i \in 1..Len(a) |-> ZInt(x[i])]) = b

\* decrypt by least squares: every lattice gets an answer
decrypt_lstsq(dim, enc) ==
    [kind |-> "bytes", val |-> [i \in 1..Min(Len(enc), dim) |-> enc[i][1] % 256]]

\* decrypt(encrypted): np.linalg.solve rejects a lattice that is not square
\* or is singular
decrypt(dim, enc) ==
    LET ico_points == create_icosahedral_structure(dim)
        a == Take(ico_points, Len(enc))
        b == Take(enc, dim)
    IN  IF ~IsSquare(a) THEN [kind |-> "LinAlgError", val |-> <<>>]
        ELSE IF Len(b) # Len(a) THEN [kind |-> "ValueError", val |-> <<>>]
        ELSE IF IsSingular(a) THEN [kind |-> "LinAlgError", val |-> <<>>]
        ELSE [kind |-> "bytes", val |-> RoundedSolution(a, b)]

\* 'Test message' of test_qidl_encryption
TestMessage == <<84, 101, 115, 116, 32, 109, 101, 115, 115, 97, 103, 101>>

Messages == Inputs(MaxLen) \cup {TestMessage}

\* vectors handed to decrypt that no encrypt call produced
ForeignCiphers == {[i \in 1..k |-> ZInt(i)] : k \in 0..(MaxLen + 1)}

NotEncrypted == [kind |-> "none", val |-> <<>>]

NotDecrypted == [arg |-> <<>>, out |-> [kind |-> "none", val |-> <<>>]]

\* a QIDLEncryption and a message
QIDLInit ==
    /\ qidl \in 1..MaxQidlDim
    /\ message \in Messages
    /\ encrypted = NotEncrypted
    /\ decrypted = NotDecrypted

\* no QIDLEncryption was constructed
QIDLNone ==
    /\ qidl = 4
    /\ message = <<>>
    /\ encrypted = NotEncrypted
    /\ decrypted = NotDecrypted

\* a call encrypt(message)
Encrypt ==
    /\ encrypted.kind = "none"
    /\ encrypted' = encrypt(qidl, message)
    /\ UNCHANGED <<qidl, message, decrypted>>
    /\ UNCHANGED <<hbbVars, tkeVars, rthVars, ctorVars, callerVars>>

\* a call decrypt(enc) on the ciphertext encrypt returned
DecryptOwn ==
    /\ encrypted.kind = "ok"
    /\ decrypted' = [arg |-> encrypted.val, out |-> decrypt(qidl, encrypted.val)]
    /\ UNCHANGED <<qidl, message, encrypted>>
    /\ UNCHANGED <<hbbVars, tkeVars, rthVars, ctorVars, callerVars>>

\* a call decrypt(enc) on another vector
DecryptForeign ==
    /\ \E enc \in ForeignCiphers :
          decrypted' = [arg |-> enc, out |-> decrypt(qidl, enc)]
    /\ UNCHANGED <<qidl, message, encrypted>>
    /\ UNCHANGED <<hbbVars, tkeVars, rthVars, ctorVars, callerVars>>

----------------------------------------------------------------------------
(* Constructors: src/src/tke.py, src/src/qidl_encrypt.py, src/src/rth.py,  *)
(* src/src/crypto_base.py                                                  *)

\* the three components; none of them derives from CryptoBase
Components ==
    {"TetrahedralKeyExchange", "QIDLEncryption", "RecursiveTesseractHash"}

Classes == Components \cup {"CryptoBase"}

\* the default of the dimension / dimensions parameter
DefaultDimension == 4

\* dimensions handed to a constructor
CtorDims == (0 - 1)..MaxDim

\* CryptoBase._validate_dimensions, for an integer
ValidDimensions(dim) == dim >= 1

\* cls.__init__(dim): only CryptoBase validates; the components store dim
construct(cls, dim) ==
    IF cls = "CryptoBase" /\ ~ValidDimensions(dim)
    THEN [kind |-> "ValueError"]
    ELSE [kind |-> "instance"]

NoCtor == [cls |-> "none", given |-> FALSE, dimension |-> DefaultDimension,
           out |-> [kind |-> "none"]]

\* nothing was constructed
CtorNone ==
    /\ ctor = NoCtor
    /\ instances = {}

\* a constructor call cls(dim), or cls() when no dimension is given
Construct(cls, given, dim) ==
    /\ Cardinality(instances) < MaxInstances
    /\ ctor' = [cls |-> cls, given |-> given, dimension |-> dim,
                out |-> construct(cls, dim)]
    /\ instances' =
          IF construct(cls, dim).kind = "instance"
          THEN instances \cup {[cls |-> cls, dimension |-> dim]}
          ELSE instances
    /\ UNCHANGED <<hbbVars, tkeVars, rthVars, qidlVars, callerVars>>

ConstructGiven == \E cls \in Classes, dim \in CtorDims : Construct(cls, TRUE, dim)

ConstructDefault == \E cls \in Classes : Construct(cls, FALSE, DefaultDimension)

----------------------------------------------------------------------------
(* Specifications *)

Init == HBBInit /\ TKENone /\ RTHNone /\ QIDLNone /\ CtorNone /\ CallersNone

Next ==
    \/ AddBlock
    \/ GetLatestBlock
    \/ IsChainValid

\* sequential use of one HypercubeBlockchain
Spec == Init /\ [][Next]_vars

NextTamper ==
    \/ AddBlock
    \/ IsChainValid
    \/ Tamper

\* the same, with one stored block modified from outside
SpecTamper == Init /\ [][NextTamper]_vars

NextCorrupt ==
    \/ AddBlock
    \/ IsChainValid
    \/ Corrupt

\* the same, with the previous_hash or the hash of one stored block
\* overwritten from outside
SpecCorrupt == Init /\ [][NextCorrupt]_vars

InitCallers == HBBInit /\ TKENone /\ RTHNone /\ QIDLNone /\ CtorNone /\ CallersInit

NextCallers ==
    \/ \E c \in Callers : ReadLatest(c)
    \/ \E c \in Callers : AppendNew(c)

\* two callers of add_block on one HypercubeBlockchain, the call taking two
\* steps
SpecCallers == InitCallers /\ [][NextCallers]_vars

InitTKE == HBBNone /\ TKEInit /\ RTHNone /\ QIDLNone /\ CtorNone /\ CallersNone

NextTKE ==
    \/ \E p \in Parties : GenerateKey(p)
    \/ \E p \in Parties : ExchangeKeys(p)

\* a key exchange between alice and bob
SpecTKE == InitTKE /\ [][NextTKE]_vars

InitRTH == HBBNone /\ TKENone /\ RTHInit /\ QIDLNone /\ CtorNone /\ CallersNone

NextRTH ==
    \/ RecursiveHash
    \/ VerifyHash

\* hashing and verifying one input string
SpecRTH == InitRTH /\ [][NextRTH]_vars

InitQIDL == HBBNone /\ TKENone /\ RTHNone /\ QIDLInit /\ CtorNone /\ CallersNone

NextQIDL ==
    \/ Encrypt
    \/ DecryptOwn
    \/ DecryptForeign

\* encrypting one message and decrypting
SpecQIDL == InitQIDL /\ [][NextQIDL]_vars

InitCtor == HBBNone /\ TKENone /\ RTHNone /\ QIDLNone /\ CtorNone /\ CallersNone

NextCtor ==
    \/ ConstructGiven
    \/ ConstructDefault

\* constructing components
SpecCtor == InitCtor /\ [][NextCtor]_vars

----------------------------------------------------------------------------
(* Claims about HypercubeBlockchain *)

\* C1: after construction and any number of sequential add_block calls,
\* with no other modification, is_chain_valid() returns true.
C1_ValidAfterAppends ==
    (ret.op = "is_chain_valid" /\ ~tampered) => ret.val = TRUE

\* C2: for every i > 0, chain[i].previous_hash is the stored hash of
\* chain[i-1]; after one add_block the chain has length 2 and block 1
\* links to the genesis block.
C2_Linkage ==
    /\ \A i \in 2..Len(chain) : chain[i].previous_hash = chain[i - 1].hash
    /\ ret.op = "add_block" => Len(chain) >= 2

C2_Witness ==
    /\ ret.op = "add_block"
    /\ Len(chain) = 2
    /\ chain[2].previous_hash = chain[1].hash
    /\ chain[2].previous_hash # ZeroHash

\* C3: after the data or the timestamp of one stored block was changed,
\* is_chain_valid() returns false.
C3_TamperEvident ==
    (ret.op = "is_chain_valid" /\ tampered) => ret.val = FALSE

\* a block as create_genesis_block builds it
IsGenesis(b) ==
    /\ b.index = 0
    /\ b.previous_hash = ZeroHash
    /\ Len(b.previous_hash) = 64
    /\ b.data = GenesisData
    /\ \E seed \in Seeds :
          b.hash = calculate_hash(0, ZeroHash, GenesisData, b.timestamp, seed)

\* C4: right after construction the chain is exactly the genesis block
\* (index 0, previous_hash of 64 '0', sentinel payload); the chain is never
\* empty, chain[0] stays that genesis block, and get_latest_block returns
\* the last block.
C4_Genesis ==
    /\ Len(chain) >= 1
    /\ IsGenesis(chain[1])
    /\ ret.op = "init" => Len(chain) = 1
    /\ ret.op = "get_latest_block" => ret.val = chain[Len(chain)]

C4_Witness ==
    /\ ret.op = "get_latest_block"
    /\ Len(chain) = 3
    /\ ret.val # chain[1]

\* C5: the chain is append-only: add_block lengthens the chain by one,
\* puts the new block last and leaves every stored block as it was;
\* is_chain_valid and get_latest_block change nothing.
C5_Step ==
    \/ /\ ret'.op = "add_block"
       /\ Len(chain') = Len(chain) + 1
       /\ SubSeq(chain', 1, Len(chain)) = chain
    \/ /\ ret'.op \in {"is_chain_valid", "get_latest_block"}
       /\ chain' = chain
       /\ ret'.op = "get_latest_block" => ret'.val = chain'[Len(chain')]

C5_AppendOnly == [][C5_Step]_vars

C5_Witness ==
    /\ ret.op = "add_block"
    /\ Len(chain) = 3
    /\ chain[3].index = 2

\* C18: under sequential add_block calls every block's index is its
\* position in the chain, so indices are unique and strictly increasing.
C18_PositionalIndex ==
    /\ \A i \in 1..Len(chain) : chain[i].index = i - 1
    /\ \A i, j \in 1..Len(chain) : i < j => chain[i].index < chain[j].index

C18_Witness ==
    /\ Len(chain) = 3
    /\ chain[2].index = 1
    /\ chain[3].index = chain[2].index + 1

\* the string calculate_hash encodes for block b
HashedString(b) ==
    StrInt(b.index) \o b.previous_hash \o b.data \o StrInt(b.timestamp)

\* no draw of the random matrix reproduces the stored hash of block b
Unreproducible(b) ==
    \A seed \in Seeds :
        b.hash # calculate_hash(b.index, b.previous_hash, b.data,
                                b.timestamp, seed)

\* block i fails one of the two checks whatever is_chain_valid draws
BrokenAt(i) ==
    \/ chain[i].previous_hash # chain[i - 1].hash
    \/ Unreproducible(chain[i])

Forked ==
    \E i, j \in 1..Len(chain) :
        /\ i < j
        /\ chain[i].index = chain[j].index
        /\ chain[i].previous_hash = chain[j].previous_hash

\* C17: when every add_block call runs to completion before the next one
\* starts, no two blocks carry the same index and the same previous_hash,
\* every block links to the hash of the block before it and the indexes
\* count the positions; the witness is the state add_block calls that
\* overlap reach, where two blocks carry the same index and previous_hash
C17_SerializedAppends ==
    serialized =>
        /\ ~Forked
        /\ \A i \in 2..Len(chain) :
              /\ chain[i].previous_hash = chain[i - 1].hash
              /\ chain[i].index = chain[i - 1].index + 1

C17_Witness ==
    /\ ~serialized
    /\ Reading = {}
    /\ Forked
    /\ \E i \in 2..Len(chain) : chain[i].previous_hash # chain[i - 1].hash

----------------------------------------------------------------------------
(* Claims about TetrahedralKeyExchange *)

\* p has exchanged keys on the vector its peer published
Exchanged(p) ==
    /\ shared[p].out.kind # "none"
    /\ shared[p].arg = pub[Peer(p)]

\* C6: when both parties publish a generate_tetrahedral_key vector and each
\* calls exchange_keys on the other's, the two results are equal.
C6_SharedSecretSymmetry ==
    (Exchanged("alice") /\ Exchanged("bob")) =>
        shared["alice"].out = shared["bob"].out

\* C7: the vector a party uses inside exchange_keys is the vector it
\* published: repeated generate_tetrahedral_key calls yield the same vector.
C7_StableKey ==
    \A p \in Parties : used[p] # <<>> => used[p] = pub[p]

\* C13: exchange_keys given a peer vector whose length is not the
\* instance's dimension, shorter or longer, fails with an error; the vector
\* is never silently truncated.
C13_DimensionMismatch ==
    \A p \in Parties :
        (shared[p].out.kind # "none" /\ Len(shared[p].arg) # dimension)
            => shared[p].out.kind = "ValueError"

\* C16: for every dimension D, every generate_tetrahedral_key call returns
\* a vector of exactly D elements.
C16_KeyShape ==
    \A p \in Parties :
        /\ keygen[p] # "none" => (keygen[p] = "ok" /\ Len(pub[p]) = dimension)
        /\ used[p] # <<>> => Len(used[p]) = dimension

----------------------------------------------------------------------------
(* Claims about RecursiveTesseractHash *)

\* C8: for every input string, dimension and iteration count, two calls of
\* recursive_hash(X) return the same vector and
\* verify_hash(X, recursive_hash(X)) is true.
C8_VerifyRoundTrip ==
    /\ Len(rthCalls) >= 1 => rthCalls[1].kind = "ok"
    /\ Len(rthCalls) = 2 => rthCalls[2] = rthCalls[1]
    /\ (/\ Len(rthCalls) >= 1
        /\ rthVerify.out.kind # "none"
        /\ rthVerify.target = rthCalls[1].val) =>
            rthVerify.out = [kind |-> "ok", val |-> TRUE]

\* C11: for every input length, shorter than dimensions included,
\* recursive_hash ends without error and returns a vector of exactly
\* dimensions elements, and verify_hash returns a boolean.
C11_HashTotal ==
    /\ \A i \in 1..Len(rthCalls) :
          /\ rthCalls[i].kind = "ok"
          /\ Len(rthCalls[i].val) = rth.dimensions
    /\ rthVerify.out.kind # "none" =>
          (rthVerify.out.kind = "ok" /\ rthVerify.out.val \in BOOLEAN)

\* x and y have at least dims bytes and the same first dims bytes
SamePrefix(dims, x, y) ==
    /\ Len(x) >= dims
    /\ Len(y) >= dims
    /\ Take(x, dims) = Take(y, dims)

\* C19: the digest depends on the first dimensions bytes only: an input Y
\* of at least dimensions bytes that agrees with X on them has the digest
\* of X, and verify_hash(X, recursive_hash(Y)) is true.
C19_PrefixOnly ==
    \A y \in Inputs(MaxLen) :
        SamePrefix(rth.dimensions, rthData, y) =>
            /\ \A i \in 1..Len(rthCalls) : rthCalls[i] = recursive_hash(rth, y)
            /\ (/\ rthVerify.out.kind # "none"
                /\ rthVerify.target = recursive_hash(rth, y).val)
                  => rthVerify.out = [kind |-> "ok", val |-> TRUE]

C19_Witness ==
    /\ rth.iterations >= 1
    /\ Len(rthCalls) >= 1
    /\ rthVerify.out = [kind |-> "ok", val |-> TRUE]
    /\ \E y \in Inputs(MaxLen) :
          /\ y # rthData
          /\ SamePrefix(rth.dimensions, rthData, y)
          /\ rthVerify.target = recursive_hash(rth, y).val

----------------------------------------------------------------------------
(* Claims about QIDLEncryption *)

\* decrypt was called on the ciphertext encrypt returned
DecryptedOwn ==
    /\ encrypted.kind = "ok"
    /\ decrypted.out.kind # "none"
    /\ decrypted.arg = encrypted.val

\* C9: for every message string m, decrypt(encrypt(m)) returns exactly m.
C9_CipherRoundTrip ==
    /\ encrypted.kind \in {"none", "ok"}
    /\ DecryptedOwn => decrypted.out = [kind |-> "bytes", val |-> message]

\* the lattice decrypt solves against, for the vector it is given
DecryptLattice == Take(create_icosahedral_structure(qidl), Len(decrypted.arg))

\* some combination of columns with coefficients -1, 0, 1, not all 0, is 0
HasDependentColumns(a) ==
    \E x \in [1..Len(a) -> {-1, 0, 1}] :
        /\ \E i \in 1..Len(a) : x[i] # 0
        /\ \A i \in 1..Len(a) :
              ZDot(a[i], [k \in 1..Len(a) |-> ZInt(x[k])]) = ZZero

CeilDiv(a, b) == (a + b - 1) \div b

\* C15: encrypt handles the whole plaintext in dimension-sized chunks, the
\* last one zero-padded, so the ciphertext has
\* ceil(len(plaintext) / dimension) * (lattice rows) elements.
C15_WholePlaintext ==
    encrypted.kind # "none" =>
        /\ encrypted.kind = "ok"
        /\ Len(encrypted.val) =
              CeilDiv(Len(message), qidl) * Len(create_icosahedral_structure(qidl))

----------------------------------------------------------------------------
(* Claims about construction *)

\* C12: constructing a component with a dimension <= 0 fails with an error
\* and yields no instance; the default dimension is 4.
C12_InvalidDimension ==
    /\ (ctor.cls \in Components /\ ctor.dimension <= 0)
          => ctor.out.kind = "ValueError"
    /\ \A i \in instances : i.cls \in Components => i.dimension >= 1
    /\ (ctor.cls \in Components /\ ~ctor.given) => ctor.dimension = 4

====
